---------------------------- MODULE Spec2Model ----------------------------
(***************************************************************************)
(* Model of believe.py: a Streamlit script that loads a royalty statement  *)
(* (CSV), lists the top tracks, and for an entered release title builds    *)
(* the platform and the country breakdowns with their hover detail.        *)
(*                                                                         *)
(* A text that is read or written character by character (a line of the   *)
(* file, a Sales Month cell, a formatted quantity) is a sequence of         *)
(* one-character strings; a separator or a column label in a line of the   *)
(* file is one element of it.  Money is in whole currency units, a unit    *)
(* price in millionths; a percentage is an integer number of hundredths    *)
(* of a percent (the two decimals round(2) keeps).  Integers stay below    *)
(* 2^31, where the conversions to float the script makes are exact.        *)
(***************************************************************************)
EXTENDS Integers, Sequences, FiniteSets, TLC

VARIABLES
    value,                   \* the argument handed to format_quantity
    formatted,               \* what format_quantity returned for it
    pc,                      \* where the script run stands
    uploaded_file,           \* the file_uploader widget: the uploaded file
    position,                \* the stream position of uploaded_file, in lines
    release_title,           \* the text_input widget
    tie_order,               \* how sort_values orders rows of equal revenue
    first_line,              \* load_csv_with_auto_delimiter: first_line
    delimiter,               \* load_csv_with_auto_delimiter: delimiter
    df,                      \* the parsed statement
    top_tracks,              \* what show_top_tracks displayed
    total_revenue,           \* total net revenue of the entered release
    platform_revenue,        \* the platform breakdown
    total_streams_formatted, \* formatted total quantity of the release
    country_data,            \* the country breakdown
    error                    \* the exception that ended the run, if any

vars == <<value, formatted, pc, uploaded_file, position, release_title,
          tie_order, first_line, delimiter, df, top_tracks, total_revenue,
          platform_revenue, total_streams_formatted, country_data, error>>

appvars == <<pc, uploaded_file, position, release_title, tie_order,
             first_line, delimiter, df, top_tracks, total_revenue,
             platform_revenue, total_streams_formatted, country_data, error>>

-----------------------------------------------------------------------------
(* Text helpers *)

Digits == <<"0", "1", "2", "3", "4", "5", "6", "7", "8", "9">>

\* str(int): the decimal digits of a non-negative integer, f"{value}"
RECURSIVE DecimalDigits(_)
DecimalDigits(n) ==
    IF n < 10 THEN <<Digits[n + 1]>>
    ELSE Append(DecimalDigits(n \div 10), Digits[(n % 10) + 1])

\* the three digits of a group below 1000, zero padded
Pad3(n) == <<Digits[(n \div 100) + 1], Digits[((n \div 10) % 10) + 1], Digits[(n % 10) + 1]>>

\* f"{value:,.0f}": the value is converted to a float (exact for every
\* integer below 2^53, hence for every value of this model), written with no
\* decimals and grouped by thousands from the right.
RECURSIVE ThousandsGrouped(_)
ThousandsGrouped(n) ==
    IF n < 1000 THEN DecimalDigits(n)
    ELSE ThousandsGrouped(n \div 1000) \o <<",">> \o Pad3(n % 1000)

RECURSIVE Log2(_)
Log2(n) == IF n < 2 THEN 0 ELSE 1 + Log2(n \div 2)

\* (a * 2^s) mod m, by s doublings
RECURSIVE ShiftMod(_, _, _)
ShiftMod(a, s, m) == IF s = 0 THEN a ELSE ShiftMod((2 * a) % m, s - 1, m)

\* Sign of float(v / d) - v / d for integers v >= d: the quotient is rounded
\* to a 53-bit significand, so with 2^e <= v/d < 2^(e+1) the remainder of
\* v * 2^(52-e) by d decides the direction.
QuotientError(v, d) ==
    LET e == Log2(v \div d)
        r == ShiftMod(v % d, 52 - e, d)
    IN  IF r = 0 THEN 0 ELSE IF 2 * r < d THEN -1 ELSE 1

\* The number of tenths f"{v/d:.1f}" shows: the float quotient correctly
\* rounded to one decimal, a tie of the float itself going to the even digit.
Tenths(v, d) ==
    LET unit == d \div 10
        fl   == v \div unit
        rem  == v % unit
    IN  IF 2 * rem < unit THEN fl
        ELSE IF 2 * rem > unit THEN fl + 1
        ELSE LET err == QuotientError(v, d)
             IN  IF err > 0 THEN fl + 1
                 ELSE IF err < 0 THEN fl
                 ELSE IF fl % 2 = 0 THEN fl ELSE fl + 1

\* f"{v/d:.1f}"
Fixed1(v, d) ==
    LET t == Tenths(v, d)
    IN  DecimalDigits(t \div 10) \o <<".">> \o <<Digits[(t % 10) + 1]>>

\* f"{value/d:.1f}<suffix> ({value:,.0f})"
Scaled(v, d, suffix) ==
    Fixed1(v, d) \o <<suffix, " ", "(">> \o ThousandsGrouped(v) \o <<")">>

format_quantity_le(v) ==
    IF v <= 1000 THEN DecimalDigits(v)
    ELSE IF v <= 1000000 THEN Scaled(v, 1000, "K")
    ELSE IF v <= 1000000000 THEN Scaled(v, 1000000, "M")
    ELSE Scaled(v, 1000000000, "B")

format_quantity(v) ==
    IF v < 1000 THEN DecimalDigits(v)
    ELSE IF v < 1000000 THEN Scaled(v, 1000, "K")
    ELSE IF v < 1000000000 THEN Scaled(v, 1000000, "M")
    ELSE Scaled(v, 1000000000, "B")

-----------------------------------------------------------------------------
(* The statement: columns, cells, rows *)

RequiredColumns ==
    <<"Release title", "Platform", "Country / Region", "Quantity",
      "Unit Price", "Net Revenue", "Client Payment Currency", "Sales Month">>

\* A Sales Month cell as pandas hands it on: a text, or NaN for an empty cell
TextCell(chars) == [kind |-> "str", chars |-> chars]
NaNCell == [kind |-> "nan", chars |-> <<>>]

\* One data line of the statement, by column
Row(title, platform, country, quantity, unit_price, net_revenue, currency, sales_month) ==
    [title |-> title, platform |-> platform, country |-> country,
     quantity |-> quantity, unit_price |-> unit_price,
     net_revenue |-> net_revenue, currency |-> currency,
     sales_month |-> sales_month]

\* Group keys in the order groupby lists them (sorted)
Titles == <<"A", "B">>
Platforms == <<"Spotify", "TikTok">>
Countries ==
    <<"AR", "AT", "AU", "BE", "BR", "CA", "CH", "CL", "CO", "CZ", "DE",
      "DK", "ES", "FI", "FR", "GB", "GR", "HU", "IE", "IN", "IT", "JP",
      "KR", "MX", "NL", "NO", "NZ", "PL", "PT", "RO", "SE", "TR", "UA",
      "US", "ZA">>

Range(s) == {s[i] : i \in 1 .. Len(s)}

RECURSIVE SumOf(_, _)
\* column.sum(): the sum of one numeric column ("net_revenue" or "quantity")
SumOf(rows, col) ==
    IF rows = <<>> THEN 0 ELSE rows[1][col] + SumOf(Tail(rows), col)

-----------------------------------------------------------------------------
(* load_csv_with_auto_delimiter *)

\* `c in line`
Contains(line, c) == \E i \in 1 .. Len(line) : line[i] = c

DetectDelimiterAny(line) ==
    IF Contains(line, ";") THEN ";" ELSE ","

\* lines 93-96
DetectDelimiter(line) ==
    IF Contains(line, ";") /\ ~Contains(line, ",") THEN ";" ELSE ","

\* uploaded_file.readline(): the first line when the stream is at its start
\* (where every run reads it), "" for an empty file or at the end
ReadLine(file, pos) ==
    IF pos = 0 THEN file.first_line ELSE <<>>

LinesOf(file) == IF file.first_line = <<>> THEN 0 ELSE 1 + Len(file.rows)

\* uploaded_file.seek(offset)
SeekTo(pos, offset) == offset

RECURSIVE Split(_, _)
\* the fields of a line separated by d
Split(line, d) ==
    IF ~Contains(line, d) THEN <<line>>
    ELSE LET i == CHOOSE k \in 1 .. Len(line) :
                      line[k] = d /\ \A j \in 1 .. (k - 1) : line[j] # d
         IN  <<SubSeq(line, 1, i - 1)>> \o Split(SubSeq(line, i + 1, Len(line)), d)

\* pd.read_csv(uploaded_file, delimiter=delimiter), reading from the stream
\* position: the first line read gives the column names, the lines after it
\* the rows.  Read from a later position, a data line is taken for the header.
ReadCsv(file, pos, delim) ==
    IF pos >= LinesOf(file)
    THEN [raised |-> "EmptyDataError", columns |-> <<>>, rows |-> <<>>]
    ELSE IF pos = 0
    THEN [raised |-> "none", columns |-> Split(file.first_line, delim),
          rows |-> file.rows]
    ELSE [raised |-> "none",
          columns |-> <<<<file.rows[pos].title>>, <<file.rows[pos].platform>>,
                        <<file.rows[pos].country>>>>,
          rows |-> SubSeq(file.rows, pos + 1, Len(file.rows))]

\* df[name] raises KeyError unless the frame has a column of that name
HasColumns(frame, names) ==
    \A n \in names : \E i \in 1 .. Len(frame.columns) : frame.columns[i] = <<n>>

-----------------------------------------------------------------------------
(* Grouping and sorting *)

\* df[df[col] == v]
Where(rows, col, v) == SelectSeq(rows, LAMBDA r : r[col] = v)

\* groupby(col).agg({"Net Revenue": "sum"}).reset_index(): one row per key
\* that occurs, in key order
GroupRevenue(rows, col, universe) ==
    LET present == SelectSeq(universe, LAMBDA k : \E i \in 1 .. Len(rows) : rows[i][col] = k)
    IN  [i \in 1 .. Len(present) |->
            [key |-> present[i],
             net_revenue |-> SumOf(Where(rows, col, present[i]), "net_revenue")]]

\* groupby(col).agg({"Net Revenue": "sum", "Quantity": "sum"}).reset_index():
\* one row per key that occurs, in key order
GroupBy(rows, col, universe) ==
    LET present == SelectSeq(universe, LAMBDA k : \E i \in 1 .. Len(rows) : rows[i][col] = k)
    IN  [i \in 1 .. Len(present) |->
            [key |-> present[i],
             net_revenue |-> SumOf(Where(rows, col, present[i]), "net_revenue"),
             quantity |-> SumOf(Where(rows, col, present[i]), "quantity")]]

Reverse(s) == [i \in 1 .. Len(s) |-> s[Len(s) + 1 - i]]

RECURSIVE InsertDescending(_, _)
\* r placed behind every row whose revenue is at least r's
InsertDescending(sorted, r) ==
    IF sorted = <<>> THEN <<r>>
    ELSE IF sorted[1].net_revenue >= r.net_revenue
         THEN <<sorted[1]>> \o InsertDescending(Tail(sorted), r)
         ELSE <<r>> \o sorted

RECURSIVE InsertAscending(_, _)
InsertAscending(sorted, r) ==
    IF sorted = <<>> THEN <<r>>
    ELSE IF sorted[1].net_revenue <= r.net_revenue
         THEN <<sorted[1]>> \o InsertAscending(Tail(sorted), r)
         ELSE <<r>> \o sorted

RECURSIVE SortedAscending(_)
SortedAscending(t) ==
    IF t = <<>> THEN <<>>
    ELSE InsertAscending(SortedAscending(SubSeq(t, 1, Len(t) - 1)), t[Len(t)])

RECURSIVE SortedDescending(_)
\* sorted(..., key=net revenue, reverse=True): descending, and stable (rows of
\* equal revenue keep their order)
SortedDescending(t) ==
    IF t = <<>> THEN <<>>
    ELSE InsertDescending(SortedDescending(SubSeq(t, 1, Len(t) - 1)), t[Len(t)])

SortValuesAscending(t, ties) ==
    IF ties = "reversed" THEN SortedAscending(Reverse(t)) ELSE SortedAscending(t)

\* sort_values(by="Net Revenue", ascending=False): descending; the default
\* sort is not stable, so the order of rows of equal revenue is the
\* library's choice, `ties`
SortValues(t, ties) ==
    IF ties = "reversed" THEN SortedDescending(Reverse(t)) ELSE SortedDescending(t)

Take(t, n) == SubSeq(t, 1, IF Len(t) < n THEN Len(t) ELSE n)

-----------------------------------------------------------------------------
(* show_top_tracks *)

MinTopRevenue == 100

TopTracksAllCurrencies(rows, ties) ==
    SortValues(SelectSeq(GroupRevenue(rows, "title", Titles),
                         LAMBDA g : g.net_revenue >= MinTopRevenue), ties)

\* lines 66-68: df_grouped
TopTracks(rows, ties) ==
    SortValues(SelectSeq(GroupRevenue(Where(rows, "currency", "EUR"), "title", Titles),
                         LAMBDA g : g.net_revenue >= MinTopRevenue), ties)

-----------------------------------------------------------------------------
(* generate_hover_data_modified *)

IsDigits(s) == \A i \in 1 .. Len(s) : s[i] \in Range(Digits)

DigitValue(c) == CHOOSE d \in 0 .. 9 : Digits[d + 1] = c

RECURSIVE NumberOf(_)
NumberOf(s) ==
    IF s = <<>> THEN 0
    ELSE 10 * NumberOf(SubSeq(s, 1, Len(s) - 1)) + DigitValue(s[Len(s)])

IsLeap(y) == y % 4 = 0 /\ (y % 100 # 0 \/ y % 400 = 0)

DaysIn(y, m) ==
    IF m = 2 THEN (IF IsLeap(y) THEN 29 ELSE 28)
    ELSE IF m \in {4, 6, 9, 11} THEN 30 ELSE 31

NoDate == [ok |-> FALSE, year |-> 0, month |-> 0]

\* datetime.strptime(text, "%Y<sep>%m<sep>%d"): four digits of year, one or
\* two of month and of day, nothing else, and a date of the calendar;
\* anything else is a ValueError (ok = FALSE)
Strptime(text, sep) ==
    LET parts == Split(text, sep)
    IN  IF /\ Len(parts) = 3
           /\ Len(parts[1]) = 4 /\ IsDigits(parts[1])
           /\ Len(parts[2]) \in {1, 2} /\ IsDigits(parts[2])
           /\ Len(parts[3]) \in {1, 2} /\ IsDigits(parts[3])
        THEN LET y == NumberOf(parts[1])
                 m == NumberOf(parts[2])
                 d == NumberOf(parts[3])
             IN  IF y >= 1 /\ m \in 1 .. 12 /\ d >= 1 /\ d <= DaysIn(y, m)
                 THEN [ok |-> TRUE, year |-> y, month |-> m]
                 ELSE NoDate
        ELSE NoDate

MonthNames ==
    <<"January", "February", "March", "April", "May", "June", "July",
      "August", "September", "October", "November", "December">>

RECURSIVE Joined(_)
Joined(chars) == IF chars = <<>> THEN "" ELSE chars[1] \o Joined(Tail(chars))

\* strftime("%B %Y")
Strftime(date) == MonthNames[date.month] \o " " \o Joined(DecimalDigits(date.year))

\* lines 48-54: strptime of a value that is no text raises TypeError, which
\* `except ValueError` does not catch
FormatDate(cell) ==
    IF cell.kind # "str" THEN [raised |-> "TypeError", text |-> ""]
    ELSE LET slash == Strptime(cell.chars, "/")
             dash  == Strptime(cell.chars, "-")
         IN  [raised |-> "none",
              text |-> IF slash.ok THEN Strftime(slash)
                       ELSE IF dash.ok THEN Strftime(dash)
                       ELSE "Unknown Date"]

MaxPlatformDetails == 20

HoverRowsUncut(rows, country) ==
    SortedDescending(Where(rows, "country", country))

\* lines 41-44: sorted_platforms_info
HoverRows(rows, country) ==
    Take(SortedDescending(Where(rows, "country", country)), MaxPlatformDetails)

\* row: a row of country_data; rows: df_filtered
generate_hover_data_modified(row, rows) ==
    LET shown == HoverRows(rows, row.key)
        dates == [i \in 1 .. Len(shown) |-> FormatDate(shown[i].sales_month)]
    IN  IF \E i \in 1 .. Len(shown) : dates[i].raised # "none"
        THEN [raised |-> "TypeError", header |-> <<>>, items |-> <<>>]
        ELSE [raised |-> "none",
              header |-> <<row.net_revenue, row.percentage, row.streams>>,
              items |-> [i \in 1 .. Len(shown) |->
                  [platform |-> shown[i].platform,
                   quantity |-> shown[i].quantity,
                   unit_price |-> shown[i].unit_price,
                   net_revenue |-> shown[i].net_revenue,
                   sales_month |-> dates[i].text]]]

-----------------------------------------------------------------------------
(* The release_title branch *)

PlatformRevenueEurOnly(rows, title, ties) ==
    LET df_filtered == Where(Where(rows, "title", title), "currency", "EUR")
        grouped == SortValues(GroupBy(df_filtered, "platform", Platforms), ties)
        total == format_quantity(SumOf(df_filtered, "quantity"))
    IN  [i \in 1 .. Len(grouped) |->
            [key |-> grouped[i].key,
             net_revenue |-> grouped[i].net_revenue,
             quantity |-> grouped[i].quantity,
             total_streams |-> total,
             streams |-> format_quantity(grouped[i].quantity)]]

\* lines 134-143: platform_revenue
PlatformRevenue(rows, title, ties) ==
    LET df_filtered == Where(rows, "title", title)
        grouped == SortValues(GroupBy(df_filtered, "platform", Platforms), ties)
        total == format_quantity(SumOf(df_filtered, "quantity"))
    IN  [i \in 1 .. Len(grouped) |->
            [key |-> grouped[i].key,
             net_revenue |-> grouped[i].net_revenue,
             quantity |-> grouped[i].quantity,
             total_streams |-> total,
             streams |-> format_quantity(grouped[i].quantity)]]

\* n / d rounded to the nearest integer, a tie to the even one (n >= 0, d > 0)
RoundHalfEven(n, d) ==
    LET q == n \div d
        r == n % d
    IN  IF 2 * r < d THEN q
        ELSE IF 2 * r > d THEN q + 1
        ELSE IF q % 2 = 0 THEN q ELSE q + 1

PercentageTruncated(revenue, total) ==
    IF total = 0
    THEN [kind |-> IF revenue = 0 THEN "nan" ELSE "inf", val |-> 0]
    ELSE [kind |-> "num", val |-> (revenue * 10000) \div total]

\* ((revenue / total) * 100).round(2), in hundredths of a percent; a zero
\* total gives NaN (0/0) or inf, no exception
Percentage(revenue, total) ==
    IF total = 0
    THEN [kind |-> IF revenue = 0 THEN "nan" ELSE "inf", val |-> 0]
    ELSE [kind |-> "num", val |-> RoundHalfEven(revenue * 10000, total)]

MaxCountriesShown == 30

\* lines 153-154: the countries of df_filtered kept for the chart
KeptCountries(rows, ties) ==
    Take(SortValues(GroupBy(rows, "country", Countries), ties), MaxCountriesShown)

ShareBaseAllCountries(rows, kept) == SumOf(rows, "net_revenue")

\* line 155: total_net_revenue, summed over the kept countries
ShareBase(rows, kept) == SumOf(kept, "net_revenue")

\* line 157 and the header of line 58: the rows of country_data with their
\* Percentage Revenue and Streams
WithShares(kept, total_net_revenue) ==
    [i \in 1 .. Len(kept) |->
        [key |-> kept[i].key,
         net_revenue |-> kept[i].net_revenue,
         quantity |-> kept[i].quantity,
         percentage |-> Percentage(kept[i].net_revenue, total_net_revenue),
         streams |-> format_quantity(kept[i].quantity)]]

ApplyHoverFrameOnEmpty(shares, df_filtered) ==
    LET hover == [i \in 1 .. Len(shares) |->
                     generate_hover_data_modified(shares[i], df_filtered)]
    IN  IF shares = <<>>
        THEN [raised |-> "ValueError", column |-> <<>>]
        ELSE IF \E i \in 1 .. Len(shares) : hover[i].raised # "none"
        THEN [raised |-> "TypeError", column |-> <<>>]
        ELSE [raised |-> "none",
              column |-> [i \in 1 .. Len(shares) |->
                  [header |-> hover[i].header, items |-> hover[i].items]]]

\* line 158: country_data.apply(generate_hover_data_modified, df=df_filtered,
\* axis=1), the function called once for each row of country_data (for a
\* table of no row, not at all); an exception of a call ends the apply
ApplyHover(shares, df_filtered) ==
    LET hover == [i \in 1 .. Len(shares) |->
                     generate_hover_data_modified(shares[i], df_filtered)]
    IN  IF \E i \in 1 .. Len(shares) : hover[i].raised # "none"
        THEN [raised |-> "TypeError", column |-> <<>>]
        ELSE [raised |-> "none",
              column |-> [i \in 1 .. Len(shares) |->
                  [header |-> hover[i].header, items |-> hover[i].items]]]

\* lines 153-158: country_data
CountryData(rows, title, ties) ==
    LET df_filtered == Where(rows, "title", title)
        kept == KeptCountries(df_filtered, ties)
        total_net_revenue == ShareBase(df_filtered, kept)
        shares == WithShares(kept, total_net_revenue)
        details == ApplyHover(shares, df_filtered)
    IN  IF details.raised # "none"
        THEN [raised |-> details.raised, table |-> <<>>]
        ELSE [raised |-> "none",
              table |-> [i \in 1 .. Len(kept) |->
                  [key |-> shares[i].key,
                   net_revenue |-> shares[i].net_revenue,
                   quantity |-> shares[i].quantity,
                   percentage |-> shares[i].percentage,
                   streams |-> shares[i].streams,
                   platform_details |-> details.column[i]]]]

-----------------------------------------------------------------------------
(* The script: one run per interaction (upload, title entered) *)

NoFile == [uploaded |-> FALSE, first_line |-> <<>>, rows |-> <<>>]
NoFrame == [columns |-> <<>>, rows |-> <<>>]
NotShown == [shown |-> "nothing", table |-> <<>>]
NotFormatted == <<>>

TieOrders == {"kept", "reversed"}

\* the values a run computes, before it has computed them
RunStarts ==
    /\ position' = 0
    /\ first_line' = <<>>
    /\ delimiter' = ""
    /\ df' = NoFrame
    /\ top_tracks' = NotShown
    /\ total_revenue' = 0
    /\ platform_revenue' = <<>>
    /\ total_streams_formatted' = NotFormatted
    /\ country_data' = <<>>
    /\ error' = "none"

InitApp ==
    /\ pc = "idle"
    /\ uploaded_file = NoFile
    /\ position = 0
    /\ release_title = ""
    /\ tie_order = "kept"
    /\ first_line = <<>>
    /\ delimiter = ""
    /\ df = NoFrame
    /\ top_tracks = NotShown
    /\ total_revenue = 0
    /\ platform_revenue = <<>>
    /\ total_streams_formatted = NotFormatted
    /\ country_data = <<>>
    /\ error = "none"

\* line 112: a file is uploaded (one per session); the script runs again,
\* file_uploader handing it the file as a stream at its start
Upload(files) ==
    /\ pc = "idle"
    /\ \E f \in files, t \in TieOrders :
          /\ uploaded_file' = f
          /\ tie_order' = t
    /\ pc' = "readline"
    /\ RunStarts
    /\ UNCHANGED <<value, formatted, release_title>>

\* line 120: a title is typed into the text input, which a run that got that
\* far has put on the page; the script runs again
EnterTitle ==
    /\ \/ pc = "done"
       \/ pc = "failed" /\ top_tracks.shown # "nothing"
    /\ \E t \in {"A", "B", "Z"} :
          /\ t # release_title
          /\ release_title' = t
    /\ pc' = "readline"
    /\ RunStarts
    /\ UNCHANGED <<value, formatted, uploaded_file, tie_order>>

\* lines 92-96
ReadFirstLine ==
    /\ pc = "readline"
    /\ first_line' = ReadLine(uploaded_file, position)
    /\ position' = IF position < LinesOf(uploaded_file) THEN position + 1 ELSE position
    /\ delimiter' = DetectDelimiter(first_line')
    /\ pc' = "seek"
    /\ UNCHANGED <<value, formatted, uploaded_file, release_title, tie_order, df,
                   top_tracks, total_revenue, platform_revenue,
                   total_streams_formatted, country_data, error>>

\* line 99
Rewind ==
    /\ pc = "seek"
    /\ position' = SeekTo(position, 0)
    /\ pc' = "read_csv"
    /\ UNCHANGED <<value, formatted, uploaded_file, release_title, tie_order,
                   first_line, delimiter, df, top_tracks, total_revenue,
                   platform_revenue, total_streams_formatted, country_data, error>>

\* line 102
Parse ==
    /\ pc = "read_csv"
    /\ LET read == ReadCsv(uploaded_file, position, delimiter)
       IN  IF read.raised # "none"
           THEN /\ error' = read.raised
                /\ pc' = "failed"
                /\ UNCHANGED <<df, position>>
           ELSE /\ df' = [columns |-> read.columns, rows |-> read.rows]
                /\ position' = LinesOf(uploaded_file)
                /\ pc' = "show_top_tracks"
                /\ UNCHANGED error
    /\ UNCHANGED <<value, formatted, uploaded_file, release_title, tie_order,
                   first_line, delimiter, top_tracks, total_revenue,
                   platform_revenue, total_streams_formatted, country_data>>

\* lines 64-80 (called at line 105; the multiselect and its total are left
\* out), then lines 120-123: with no title entered the run ends
show_top_tracks ==
    /\ pc = "show_top_tracks"
    /\ IF ~HasColumns(df, {"Client Payment Currency", "Release title", "Net Revenue"})
       THEN /\ error' = "KeyError"
            /\ pc' = "failed"
            /\ UNCHANGED top_tracks
       ELSE /\ LET df_grouped == TopTracks(df.rows, tie_order)
               IN  top_tracks' =
                      [shown |-> IF df_grouped = <<>> THEN "message" ELSE "table",
                       table |-> df_grouped]
            /\ pc' = IF release_title = "" THEN "done" ELSE "platform"
            /\ UNCHANGED error
    /\ UNCHANGED <<value, formatted, uploaded_file, position, release_title,
                   tie_order, first_line, delimiter, df, total_revenue,
                   platform_revenue, total_streams_formatted, country_data>>

\* lines 125-149
PlatformBreakdown ==
    /\ pc = "platform"
    /\ IF ~HasColumns(df, {"Platform", "Quantity"})
       THEN /\ error' = "KeyError"
            /\ pc' = "failed"
            /\ UNCHANGED <<total_revenue, platform_revenue, total_streams_formatted>>
       ELSE /\ total_revenue' = SumOf(Where(df.rows, "title", release_title), "net_revenue")
            /\ platform_revenue' = PlatformRevenue(df.rows, release_title, tie_order)
            /\ total_streams_formatted' =
                   format_quantity(SumOf(Where(df.rows, "title", release_title), "quantity"))
            /\ pc' = "country"
            /\ UNCHANGED error
    /\ UNCHANGED <<value, formatted, uploaded_file, position, release_title,
                   tie_order, first_line, delimiter, df, top_tracks, country_data>>

\* lines 153-164
CountryBreakdown ==
    /\ pc = "country"
    /\ IF ~HasColumns(df, {"Country / Region", "Unit Price", "Sales Month"})
       THEN /\ error' = "KeyError"
            /\ pc' = "failed"
            /\ UNCHANGED country_data
       ELSE LET built == CountryData(df.rows, release_title, tie_order)
            IN  IF built.raised # "none"
                THEN /\ error' = built.raised
                     /\ pc' = "failed"
                     /\ UNCHANGED country_data
                ELSE /\ country_data' = built.table
                     /\ pc' = "done"
                     /\ UNCHANGED error
    /\ UNCHANGED <<value, formatted, uploaded_file, position, release_title,
                   tie_order, first_line, delimiter, df, top_tracks,
                   total_revenue, platform_revenue, total_streams_formatted>>

Run ==
    \/ ReadFirstLine
    \/ Rewind
    \/ Parse
    \/ show_top_tracks
    \/ PlatformBreakdown
    \/ CountryBreakdown

-----------------------------------------------------------------------------
(* Statements uploaded *)

Chars_2024_01_01_slash == <<"2", "0", "2", "4", "/", "0", "1", "/", "0", "1">>
Chars_2024_02_01_dash == <<"2", "0", "2", "4", "-", "0", "2", "-", "0", "1">>
Chars_2024_01_15_slash == <<"2", "0", "2", "4", "/", "0", "1", "/", "1", "5">>
Chars_2024_01_15_dash == <<"2", "0", "2", "4", "-", "0", "1", "-", "1", "5">>
Chars_15_01_2024_dash == <<"1", "5", "-", "0", "1", "-", "2", "0", "2", "4">>
Chars_2024_13_01_slash == <<"2", "0", "2", "4", "/", "1", "3", "/", "0", "1">>
Chars_2023_02_29_dash == <<"2", "0", "2", "3", "-", "0", "2", "-", "2", "9">>
Chars_2024_2_29_slash == <<"2", "0", "2", "4", "/", "2", "/", "2", "9">>
Chars_2023_12_slash == <<"2", "0", "2", "3", "/", "1", "2">>

RECURSIVE JoinWith(_, _)
\* the fields written on one line with sep between them
JoinWith(fields, sep) ==
    IF fields = <<>> THEN <<>>
    ELSE IF Len(fields) = 1 THEN fields[1]
    ELSE fields[1] \o <<sep>> \o JoinWith(Tail(fields), sep)

ColumnFields == [i \in 1 .. Len(RequiredColumns) |-> <<RequiredColumns[i]>>]

\* First lines: the schema separated by commas or by semicolons, the same
\* with one more column whose label holds the other character, and a line
\* with neither
FirstLines ==
    <<JoinWith(ColumnFields, ","),
      JoinWith(ColumnFields, ";"),
      JoinWith(Append(ColumnFields, <<"Label", ",", " Distributor">>), ";"),
      JoinWith(Append(ColumnFields, <<"Label", ";", " Distributor">>), ","),
      <<"Release title">>>>

File(line, rows) == [uploaded |-> TRUE, first_line |-> line, rows |-> rows]

EmptyFile == File(<<>>, <<>>)

Jan01 == TextCell(Chars_2024_01_01_slash)
Feb01 == TextCell(Chars_2024_02_01_dash)

\* The lines a small statement is made of
RowKinds ==
    <<Row("A", "Spotify", "DE", 500, 4000, 2, "EUR", Jan01),
      Row("A", "Spotify", "DE", 600000, 3000, 1800, "EUR", Feb01),
      Row("A", "Spotify", "DE", 30000, 3267, 98, "EUR", Jan01),
      Row("A", "Spotify", "FR", 600000, 3000, 1800, "EUR", Feb01),
      Row("A", "TikTok", "DE", 600000, 3000, 1800, "EUR", Jan01),
      Row("A", "TikTok", "DE", 30000, 3267, 98, "EUR", Feb01),
      Row("A", "Spotify", "DE", 600000, 3000, 1800, "USD", Jan01),
      Row("A", "TikTok", "FR", 30000, 3267, 98, "USD", Jan01),
      Row("B", "Spotify", "DE", 600000, 3000, 1800, "EUR", Jan01),
      Row("B", "Spotify", "DE", 30000, 3267, 98, "EUR", Feb01),
      Row("B", "TikTok", "DE", 800000, 3125, 2500, "EUR", Jan01),
      Row("B", "TikTok", "DE", 600000, 3000, 1800, "USD", Jan01)>>

MaxRows == 2

\* the statements of at most MaxRows lines, lines in the order of RowKinds
SmallRowSets ==
    {[i \in 1 .. Len(s) |-> RowKinds[s[i]]] :
        s \in {t \in UNION {[1 .. n -> 1 .. Len(RowKinds)] : n \in 0 .. MaxRows} :
                  \A i \in 1 .. Len(t) : \A j \in 1 .. Len(t) : i < j => t[i] <= t[j]}}

SmallFiles ==
    {EmptyFile} \cup
    {File(FirstLines[h], rows) : h \in 1 .. Len(FirstLines), rows \in SmallRowSets}

MaxCountries == 31

RevenuePatterns == {"equal", "ascending", "descending", "zero"}

PatternRevenue(pattern, i, n) ==
    CASE pattern = "equal" -> 50
      [] pattern = "ascending" -> i
      [] pattern = "descending" -> n + 1 - i
      [] OTHER -> 0

\* Statements of release "A" sold in n countries, one line each, followed by
\* a line in another currency and a line of another release
ManyCountryRows(n, pattern) ==
    [i \in 1 .. n |->
        Row("A", Platforms[(i % 2) + 1], Countries[i], 1000 * i, 3000,
            PatternRevenue(pattern, i, n), "EUR", Jan01)]
    \o <<Row("A", "TikTok", Countries[1], 500, 4000, 2, "USD", Feb01),
         Row("B", "Spotify", Countries[1], 600000, 3000, 1800, "EUR", Jan01)>>

ManyCountryFiles ==
    {File(FirstLines[1], ManyCountryRows(n, p)) :
        n \in 0 .. MaxCountries, p \in RevenuePatterns}

MaxItems == 21

SalesMonths ==
    <<TextCell(Chars_2024_01_15_slash), TextCell(Chars_2024_01_15_dash),
      TextCell(Chars_15_01_2024_dash), TextCell(Chars_2024_13_01_slash),
      TextCell(Chars_2023_02_29_dash), TextCell(Chars_2024_2_29_slash),
      TextCell(Chars_2023_12_slash), Feb01>>

MonthPatterns == {"slash", "mixed", "missing"}

PatternMonth(pattern, i) ==
    CASE pattern = "slash" -> SalesMonths[1]
      [] pattern = "mixed" -> SalesMonths[(i % Len(SalesMonths)) + 1]
      [] OTHER -> IF i = 1 THEN NaNCell ELSE SalesMonths[(i % Len(SalesMonths)) + 1]

\* Statements of release "A" with n lines in one country (each with a
\* quantity of its own), a line in a second country and a line of another
\* release whose Sales Month cell is empty
ManyItemRows(n, pattern, months) ==
    [i \in 1 .. n |->
        Row("A", Platforms[(i % 2) + 1], "DE", i, 3000,
            PatternRevenue(pattern, i, n), "EUR", PatternMonth(months, i))]
    \o <<Row("A", "Spotify", "FR", 500, 4000, 2, "EUR", Jan01),
         Row("B", "TikTok", "DE", 600000, 3000, 1800, "EUR", NaNCell)>>

ManyItemFiles ==
    {File(FirstLines[2], ManyItemRows(n, p, m)) :
        n \in 0 .. MaxItems, p \in RevenuePatterns \ {"zero"}, m \in MonthPatterns}

Init ==
    /\ value = 0
    /\ formatted = NotFormatted
    /\ InitApp

Next ==
    \/ Upload(SmallFiles)
    \/ EnterTitle
    \/ Run

Spec == Init /\ [][Next]_vars

NextCountries ==
    \/ Upload(ManyCountryFiles)
    \/ EnterTitle
    \/ Run

SpecCountries == Init /\ [][NextCountries]_vars

NextItems ==
    \/ Upload(ManyItemFiles)
    \/ EnterTitle
    \/ Run

SpecItems == Init /\ [][NextItems]_vars

-----------------------------------------------------------------------------
(* format_quantity applied to values around its thresholds *)

Spread == 12

Thresholds == {1000, 1000000, 1000000000}

QuantityInputs ==
    (0 .. Spread)
    \cup {t + k : t \in Thresholds, k \in (0 - Spread) .. Spread}
    \cup {1050, 1150, 1250, 1950, 999949, 999950, 999999, 1250000, 999950000}

InitFQ ==
    /\ value \in QuantityInputs
    /\ formatted = NotFormatted
    /\ InitApp

Format ==
    /\ formatted = NotFormatted
    /\ formatted' = format_quantity(value)
    /\ UNCHANGED value
    /\ UNCHANGED appvars

NextFQ == Format

SpecFQ == InitFQ /\ [][NextFQ]_vars

-----------------------------------------------------------------------------
(* Properties.  The sums and orders they speak of are computed here from    *)
(* the statement's rows directly, by index sets, not by the operators that  *)
(* model the script.                                                        *)

RECURSIVE Total(_, _, _)
\* the sum of column col over the rows whose index is in S
Total(S, rows, col) ==
    IF S = {} THEN 0
    ELSE LET i == CHOOSE x \in S : TRUE
         IN  rows[i][col] + Total(S \ {i}, rows, col)

Indices(t) == 1 .. Len(t)

Min(a, b) == IF a < b THEN a ELSE b

Abs(n) == IF n < 0 THEN 0 - n ELSE n

\* the rows of the statement that belong to release t
TitleRows(t) == {i \in Indices(df.rows) : df.rows[i].title = t}

NonIncreasing(t) ==
    \A i \in 1 .. (Len(t) - 1) : t[i].net_revenue >= t[i + 1].net_revenue

\* the run has charted the country breakdown of the entered title
CountryBuilt == pc = "done" /\ release_title # ""

\* the run has charted the platform breakdown of the entered title
PlatformBuilt ==
    /\ release_title # ""
    /\ \/ pc = "country"
       \/ pc \in {"done", "failed"} /\ total_streams_formatted # NotFormatted

(* ---- C1 ---- *)

\* the character before " (", "" when the text has no parenthesis
SuffixOf(text) ==
    IF \E i \in Indices(text) : text[i] = "("
    THEN text[(CHOOSE i \in Indices(text) : text[i] = "(") - 2]
    ELSE ""

\* the text between "(" and ")"
Parenthesised(text) ==
    LET open == CHOOSE i \in Indices(text) : text[i] = "("
        close == CHOOSE i \in Indices(text) : text[i] = ")"
    IN  SubSeq(text, open + 1, close - 1)

RECURSIVE Flatten(_)
Flatten(pieces) ==
    IF pieces = <<>> THEN <<>> ELSE pieces[1] \o Flatten(Tail(pieces))

\* the digits of n, a comma before every group of three counted from the right
WithSeparators(n) ==
    LET ds == DecimalDigits(n)
    IN  Flatten([i \in Indices(ds) |->
            IF i > 1 /\ (Len(ds) - i + 1) % 3 = 0 THEN <<",", ds[i]>> ELSE <<ds[i]>>])

TierSuffix(v) ==
    IF v < 1000 THEN ""
    ELSE IF v < 1000000 THEN "K"
    ELSE IF v < 1000000000 THEN "M"
    ELSE "B"

\* C1: format_quantity picks its tier by the thresholds 1000, 10^6 and 10^9,
\* a value equal to a threshold taking the tier above it: below 1000 the
\* result is the integer itself with no suffix; from there on it carries the
\* suffix K, M or B of its tier and, in parentheses, the full value with
\* thousands separators; 999 gives "999", 1000 gives "1.0K (1,000)", 10^6
\* gives "1.0M (1,000,000)" and 10^9 gives "1.0B (1,000,000,000)".
C1_TierByPowerOfTen ==
    formatted # NotFormatted =>
        /\ SuffixOf(formatted) = TierSuffix(value)
        /\ value < 1000 =>
              /\ IsDigits(formatted)
              /\ Len(formatted) = Len(DecimalDigits(value))
              /\ NumberOf(formatted) = value
        /\ value >= 1000 =>
              /\ Parenthesised(formatted) = WithSeparators(value)
              /\ formatted[Len(formatted)] = ")"
        /\ value = 999 => Joined(formatted) = "999"
        /\ value = 1000 => Joined(formatted) = "1.0K (1,000)"
        /\ value = 1000000 => Joined(formatted) = "1.0M (1,000,000)"
        /\ value = 1000000000 => Joined(formatted) = "1.0B (1,000,000,000)"

\* a threshold value has been formatted
C1_Witness ==
    /\ value = 1000000
    /\ formatted # NotFormatted
    /\ SuffixOf(formatted) = "M"

(* ---- C2 ---- *)

\* the run has passed the delimiter detection
DelimiterChosen == pc \notin {"idle", "readline"}

\* the run has parsed the file
Parsed ==
    \/ pc \in {"show_top_tracks", "platform", "country", "done"}
    \/ pc = "failed" /\ error # "EmptyDataError"

\* C2: the separator is the semicolon exactly when the first line of the
\* upload holds a semicolon and no comma, the comma in every other case; the
\* stream is back at position 0 when the parse starts, and the parse sees
\* the whole file, first line included.
C2_DelimiterFromFirstLine ==
    /\ DelimiterChosen =>
          /\ delimiter \in {";", ","}
          /\ delimiter = ";" <=>
                /\ ";" \in Range(uploaded_file.first_line)
                /\ "," \notin Range(uploaded_file.first_line)
          /\ first_line = uploaded_file.first_line
    /\ pc = "read_csv" => position = 0
    /\ Parsed =>
          /\ df.rows = uploaded_file.rows
          /\ Flatten([i \in Indices(df.columns) |->
                 IF i = 1 THEN df.columns[i] ELSE <<delimiter>> \o df.columns[i]])
             = uploaded_file.first_line

\* a first line with both characters was read as comma separated, and the
\* parse that followed took in every line
C2_Witness ==
    /\ Parsed
    /\ delimiter = ","
    /\ ";" \in Range(uploaded_file.first_line)
    /\ Len(df.rows) = Len(uploaded_file.rows)
    /\ Len(df.rows) > 0

(* ---- C3 ---- *)

EurRows(t) == {i \in TitleRows(t) : df.rows[i].currency = "EUR"}

Listed(t) == \E i \in Indices(top_tracks.table) : top_tracks.table[i].key = t

\* C3: the top-tracks table lists a release exactly when the Net Revenue of
\* its EUR rows sums to no less than 100, once, with that EUR-only sum as its
\* revenue; rows in other currencies add to no revenue shown and list no title.
C3_TopTracksEurOnly ==
    top_tracks.shown # "nothing" =>
        /\ \A t \in Range(Titles) :
              Listed(t) <=> ~(Total(EurRows(t), df.rows, "net_revenue") < 100)
        /\ \A i \in Indices(top_tracks.table) :
              /\ top_tracks.table[i].net_revenue =
                    Total(EurRows(top_tracks.table[i].key), df.rows, "net_revenue")
              /\ \A j \in Indices(top_tracks.table) :
                    top_tracks.table[j].key = top_tracks.table[i].key => j = i
        /\ top_tracks.shown = "table" <=> top_tracks.table # <<>>

\* a release whose rows sum to 100 or more only with its non-EUR rows is
\* left out, while another release is listed
C3_Witness ==
    /\ top_tracks.shown = "table"
    /\ \E t \in Range(Titles) :
          /\ ~Listed(t)
          /\ Total(TitleRows(t), df.rows, "net_revenue") >= 100

(* ---- C4 ---- *)

\* C4 as stated: each row of the top-tracks table has a strictly greater
\* revenue than the row after it.
C4_StrictlyDescending ==
    \A i \in 1 .. (Len(top_tracks.table) - 1) :
        top_tracks.table[i].net_revenue > top_tracks.table[i + 1].net_revenue

\* C4, amended: each row of the top-tracks table has a revenue greater than
\* or equal to that of the row after it.
C4_Descending == NonIncreasing(top_tracks.table)

\* the sort has moved release "B" ahead of release "A"
C4_Witness ==
    /\ Len(top_tracks.table) = 2
    /\ top_tracks.table[1].key = "B"
    /\ top_tracks.table[1].net_revenue > top_tracks.table[2].net_revenue

(* ---- C9 ---- *)

PlatformRows(p) == {i \in TitleRows(release_title) : df.rows[i].platform = p}

\* C9: the platform breakdown of the entered release R has one row for each
\* platform that occurs among R's rows and no other, with the quantity and
\* the revenue summed over R's rows of that platform, whatever their
\* currency; it is in descending order of revenue; and its revenues add up
\* to the total revenue displayed for R.
C9_PlatformBreakdown ==
    PlatformBuilt =>
        /\ \A p \in Range(Platforms) :
              LET at == {i \in Indices(platform_revenue) : platform_revenue[i].key = p}
              IN  /\ Cardinality(at) = IF PlatformRows(p) = {} THEN 0 ELSE 1
                  /\ \A i \in at :
                        /\ platform_revenue[i].quantity =
                              Total(PlatformRows(p), df.rows, "quantity")
                        /\ platform_revenue[i].net_revenue =
                              Total(PlatformRows(p), df.rows, "net_revenue")
        /\ \A i \in Indices(platform_revenue) : platform_revenue[i].key \in Range(Platforms)
        /\ NonIncreasing(platform_revenue)
        /\ total_revenue = Total(TitleRows(release_title), df.rows, "net_revenue")
        /\ Total(Indices(platform_revenue), platform_revenue, "net_revenue") = total_revenue

\* two Spotify rows of release "A", 500 and 600000 streams, 2 and 1800 of
\* revenue: one Spotify row of 600500 streams and 1802, "A" listed with 1802
C9_Witness ==
    /\ pc = "done"
    /\ release_title = "A"
    /\ Len(platform_revenue) = 1
    /\ platform_revenue[1].key = "Spotify"
    /\ platform_revenue[1].quantity = 600500
    /\ platform_revenue[1].net_revenue = 1802
    /\ top_tracks.table = <<[key |-> "A", net_revenue |-> 1802]>>

(* ---- C10 ---- *)

\* the entered title is the release of no row of a statement that was parsed
\* and listed
NoMatch ==
    /\ release_title # ""
    /\ top_tracks.shown # "nothing"
    /\ TitleRows(release_title) = {}

\* C10: when the entered title matches no row, the run ends without an
\* exception, with an empty platform table and an empty country table.
C10_NoMatchEmptyTables ==
    NoMatch =>
        /\ pc # "failed"
        /\ error = "none"
        /\ platform_revenue = <<>>
        /\ country_data = <<>>
        /\ total_revenue = 0

\* a run over a statement with rows has ended for a title none of them has
C10_Witness ==
    /\ NoMatch
    /\ pc = "done"
    /\ Len(df.rows) > 0
    /\ total_streams_formatted = <<"0">>

(* ---- C5, C6 ---- *)

\* the countries release R is sold in
CountryRows(c) == {i \in TitleRows(release_title) : df.rows[i].country = c}

CountriesOfRelease == {c \in Range(Countries) : CountryRows(c) # {}}

CountryRevenue(c) == Total(CountryRows(c), df.rows, "net_revenue")

KeptKeys == {country_data[i].key : i \in Indices(country_data)}

KeptTotal == Total(Indices(country_data), country_data, "net_revenue")

RECURSIVE ShareSum(_)
\* the sum of the Percentage Revenue column (hundredths of a percent)
ShareSum(S) ==
    IF S = {} THEN 0
    ELSE LET i == CHOOSE x \in S : TRUE
         IN  country_data[i].percentage.val + ShareSum(S \ {i})

\* C5 as stated: the Percentage Revenue values of the kept countries sum to
\* at most 100.
C5_SharesAtMost100 ==
    CountryBuilt => ShareSum(Indices(country_data)) <= 10000

\* C5, amended: when the revenue of the kept countries is not zero, the
\* Percentage Revenue values of the kept countries sum to 100 give or take
\* 0.005 for each kept country; the sum can exceed 100.
C5_SharesNear100 ==
    CountryBuilt /\ KeptTotal # 0 =>
        2 * Abs(ShareSum(Indices(country_data)) - 10000) <= Len(country_data)

\* six or more countries are kept and their shares sum to more than 100
C5_Witness ==
    /\ CountryBuilt
    /\ Len(country_data) >= 6
    /\ ShareSum(Indices(country_data)) > 10000

\* h hundredths is 100 * revenue / total rounded to two decimals, a tie going
\* to the even digit
IsRoundedShare(h, revenue, total) ==
    /\ 2 * Abs(h * total - 10000 * revenue) <= Abs(total)
    /\ 2 * Abs(h * total - 10000 * revenue) = Abs(total) => h % 2 = 0

\* C6: the country breakdown keeps the 30 countries of the release with the
\* highest summed Net Revenue, all of them when there are 30 or fewer, in
\* descending order of revenue; each kept country's Percentage Revenue is
\* 100 * its revenue / the revenue of the kept countries, rounded to two
\* decimals.
C6_TopThirtyShares ==
    CountryBuilt =>
        /\ Len(country_data) = Min(30, Cardinality(CountriesOfRelease))
        /\ Cardinality(KeptKeys) = Len(country_data)
        /\ KeptKeys \subseteq CountriesOfRelease
        /\ \A i \in Indices(country_data) :
              country_data[i].net_revenue = CountryRevenue(country_data[i].key)
        /\ NonIncreasing(country_data)
        /\ \A c \in CountriesOfRelease \ KeptKeys :
              \A i \in Indices(country_data) :
                  CountryRevenue(c) <= country_data[i].net_revenue
        /\ KeptTotal # 0 =>
              \A i \in Indices(country_data) :
                  /\ country_data[i].percentage.kind = "num"
                  /\ IsRoundedShare(country_data[i].percentage.val,
                                    country_data[i].net_revenue, KeptTotal)

\* the release is sold in more than 30 countries, 30 are kept, and a country
\* with revenue is left out
C6_Witness ==
    /\ CountryBuilt
    /\ Cardinality(CountriesOfRelease) > 30
    /\ Len(country_data) = 30
    /\ \E c \in CountriesOfRelease \ KeptKeys : CountryRevenue(c) > 0

(* ---- C7 ---- *)

\* the statement's row a line-item of country c was made from
IsItemOf(item, i) ==
    /\ df.rows[i].platform = item.platform
    /\ df.rows[i].quantity = item.quantity
    /\ df.rows[i].unit_price = item.unit_price
    /\ df.rows[i].net_revenue = item.net_revenue

\* C7: the hover detail of each kept country lists at most 20 line-items,
\* each of them a row of the entered release in that country, in
\* non-increasing order of Net Revenue; when the country has more than 20
\* rows no row left out has a greater Net Revenue than a listed one.
C7_HoverTopTwenty ==
    CountryBuilt =>
        \A k \in Indices(country_data) :
            LET items == country_data[k].platform_details.items
                from == CountryRows(country_data[k].key)
                omitted == {i \in from : \A j \in Indices(items) : ~IsItemOf(items[j], i)}
            IN  /\ Len(items) <= 20
                /\ Len(items) = Min(20, Cardinality(from))
                /\ \A j \in Indices(items) : \E i \in from : IsItemOf(items[j], i)
                /\ NonIncreasing(items)
                /\ Cardinality(from) > 20 =>
                      /\ omitted # {}
                      /\ \A i \in omitted : \A j \in Indices(items) :
                            df.rows[i].net_revenue <= items[j].net_revenue

\* a country with 21 rows of the release shows 20 of them, and the rows are
\* not all of one revenue
C7_Witness ==
    /\ CountryBuilt
    /\ \E k \in Indices(country_data) :
          /\ Cardinality(CountryRows(country_data[k].key)) > 20
          /\ Len(country_data[k].platform_details.items) = 20
          /\ country_data[k].platform_details.items[1].net_revenue >
                country_data[k].platform_details.items[20].net_revenue

(* ---- C8 ---- *)

\* what the claim says a Sales Month cell is rendered as, for the cells it
\* names: the two accepted forms of 15 January 2024, a text in neither form,
\* and a cell that is no text
ClaimedMonth(cell) ==
    IF cell = TextCell(Chars_2024_01_15_slash) \/ cell = TextCell(Chars_2024_01_15_dash)
    THEN {"January 2024"}
    ELSE IF cell = TextCell(Chars_15_01_2024_dash) \/ cell.kind # "str"
    THEN {"Unknown Date"}
    ELSE {"Unknown Date"} \cup
         {MonthNames[m] \o " " \o y : m \in 1 .. 12, y \in {"2023", "2024"}}

\* C8: building the hover text never ends the run with an exception,
\* whatever the Sales Month cells hold, and every line-item shows its month
\* as the claim says: "January 2024" for "2024/01/15" and for "2024-01-15",
\* "Unknown Date" for "15-01-2024" and for a cell that is no text.
C8_DatesNeverFail ==
    /\ release_title # "" /\ top_tracks.shown # "nothing" => pc # "failed"
    /\ CountryBuilt =>
          \A k \in Indices(country_data) :
              \A j \in Indices(country_data[k].platform_details.items) :
                  LET item == country_data[k].platform_details.items[j]
                  IN  \E i \in CountryRows(country_data[k].key) :
                          /\ IsItemOf(item, i)
                          /\ item.sales_month \in ClaimedMonth(df.rows[i].sales_month)

\* what holds of the code: a run that is not ended by an exception renders
\* every text cell as the claim says
C8_TextCellsRendered ==
    CountryBuilt =>
        \A k \in Indices(country_data) :
            \A j \in Indices(country_data[k].platform_details.items) :
                LET item == country_data[k].platform_details.items[j]
                IN  \E i \in CountryRows(country_data[k].key) :
                        /\ IsItemOf(item, i)
                        /\ df.rows[i].sales_month.kind = "str"
                        /\ item.sales_month \in ClaimedMonth(df.rows[i].sales_month)

=============================================================================
